---- MODULE Spec2Model ----
(***************************************************************************)
(* Model of the schema diff engine of schema-compare-tool                  *)
(* (src/src/report-terminal.js, diffSchemas and the routines it calls).    *)
(*                                                                         *)
(* JavaScript strings are sequences of one-character strings; their order  *)
(* is the UTF-16 code unit order Array.prototype.sort() uses by default.   *)
(* A JavaScript value that may be null, undefined, a boolean, a number or  *)
(* a string is a record [t |-> type, s |-> characters].  Arrays, Sets,     *)
(* Maps and plain objects are sequences in insertion order.                *)
(***************************************************************************)
EXTENDS Naturals, Sequences, FiniteSets

VARIABLES schemaA, schemaB, pc, outcome, diff, stats,
          entryPoint, extraction, response, clientEnds

vars == <<schemaA, schemaB, pc, outcome, diff, stats,
          entryPoint, extraction, response, clientEnds>>

----------------------------------------------------------------------------
(* Bounds of the model *)

\* Records in the two snapshots taken together.
MaxRows == 4

----------------------------------------------------------------------------
(* Strings *)

\* The characters of the model in ascending UTF-16 code unit order.
Alphabet ==
    << "\t", " ", "\"", "(", ")", ",", "-", ".", "0", "1", "2", "3", "4",
       ":", ">", "A", "D", "E", "I", "N", "O", "P", "R", "S", "T", "U", "V",
       "Y", "[", "\\", "]", "_",
       "a", "b", "c", "d", "e", "f", "g", "h", "i", "k", "l", "m", "n", "o",
       "p", "r", "s", "t", "u", "v", "w", "x", "y", "{", "}" >>

CodeUnit == [c \in {Alphabet[i] : i \in 1..Len(Alphabet)} |->
                CHOOSE i \in 1..Len(Alphabet) : Alphabet[i] = c]

\* s < t as the default comparator of Array.prototype.sort() decides it.
RECURSIVE StrLess(_, _)
StrLess(s, t) ==
    IF t = <<>> THEN FALSE
    ELSE IF s = <<>> THEN TRUE
    ELSE IF Head(s) = Head(t) THEN StrLess(Tail(s), Tail(t))
    ELSE CodeUnit[Head(s)] < CodeUnit[Head(t)]

\* Characters String.prototype.trim() strips.
WhiteSpace == {" ", "\t"}

RECURSIVE TrimStart(_)
TrimStart(s) ==
    IF s # <<>> /\ Head(s) \in WhiteSpace THEN TrimStart(Tail(s)) ELSE s

RECURSIVE TrimEnd(_)
TrimEnd(s) ==
    IF s # <<>> /\ s[Len(s)] \in WhiteSpace
    THEN TrimEnd(SubSeq(s, 1, Len(s) - 1)) ELSE s

Trim(s) == TrimEnd(TrimStart(s))

----------------------------------------------------------------------------
(* JavaScript values *)

Null      == [t |-> "null", s |-> <<>>]
Undefined == [t |-> "undefined", s |-> <<>>]
Str(s)    == [t |-> "string", s |-> s]
Bool(s)   == [t |-> "boolean", s |-> s]
Num(s)    == [t |-> "number", s |-> s]

\* String(v), also what a template literal does to an interpolated value.
ToString(v) ==
    CASE v.t = "null"      -> <<"n", "u", "l", "l">>
      [] v.t = "undefined" -> <<"u", "n", "d", "e", "f", "i", "n", "e", "d">>
      [] OTHER             -> v.s

\* An array of strings as a value, e.g. the roles of a policy.
Arr(items) == [t |-> "array", s |-> <<>>, items |-> items]

\* The escapes JSON.stringify applies inside a string.
RECURSIVE Escape(_)
Escape(s) ==
    IF s = <<>> THEN <<>>
    ELSE (CASE Head(s) = "\"" -> <<"\\", "\"">>
            [] Head(s) = "\\" -> <<"\\", "\\">>
            [] Head(s) = "\t" -> <<"\\", "t">>
            [] OTHER          -> <<Head(s)>>) \o Escape(Tail(s))

Quote(s) == <<"\"">> \o Escape(s) \o <<"\"">>

\* JSON.stringify of an array of strings.
RECURSIVE JoinQuoted(_)
JoinQuoted(items) ==
    IF items = <<>> THEN <<>>
    ELSE IF Len(items) = 1 THEN Quote(items[1])
    ELSE Quote(Head(items)) \o <<",">> \o JoinQuoted(Tail(items))

StringifyArray(items) == <<"[">> \o JoinQuoted(items) \o <<"]">>

\* JSON.stringify of a property value that is not undefined.
StringifyValue(v) ==
    CASE v.t = "null"   -> <<"n", "u", "l", "l">>
      [] v.t = "string" -> Quote(v.s)
      [] v.t = "array"  -> StringifyArray(v.items)
      [] OTHER          -> v.s

\* JSON.stringify of an object literal whose properties are, in order, the
\* names with the values given in obj: an undefined property is left out.
\* A property name is one element of the text.
RECURSIVE StringifyProps(_, _, _)
StringifyProps(names, obj, first) ==
    IF names = <<>> THEN <<>>
    ELSE LET n == Head(names)
         IN  IF obj[n].t = "undefined"
             THEN StringifyProps(Tail(names), obj, first)
             ELSE (IF first THEN <<>> ELSE <<",">>)
                  \o <<"\"", n, "\"", ":">> \o StringifyValue(obj[n])
                  \o StringifyProps(Tail(names), obj, FALSE)

StringifyObject(names, obj) ==
    <<"{">> \o StringifyProps(names, obj, TRUE) \o <<"}">>

----------------------------------------------------------------------------
(* Arrays, Sets and Maps *)

Range(seq) == {seq[i] : i \in 1..Len(seq)}

Contains(seq, x) == \E i \in 1..Len(seq) : seq[i] = x

\* NewSet without the removal of repeated elements.
NewSetKeepAll(seq) == seq

\* new Set(array), spread back to an array: first occurrences, in order.
RECURSIVE NewSet(_)
NewSet(seq) ==
    IF seq = <<>> THEN <<>>
    ELSE LET front == NewSet(SubSeq(seq, 1, Len(seq) - 1))
             last  == seq[Len(seq)]
         IN  IF Contains(front, last) THEN front ELSE Append(front, last)

\* array.filter(n => !other.has(n))
Without(seq, other) ==
    LET keep(x) == ~Contains(other, x) IN SelectSeq(seq, keep)

\* array.filter(n => other.has(n))
Within(seq, other) ==
    LET keep(x) == Contains(other, x) IN SelectSeq(seq, keep)

RECURSIVE Insert(_, _)
Insert(sorted, x) ==
    IF sorted = <<>> THEN <<x>>
    ELSE IF StrLess(x, Head(sorted)) THEN <<x>> \o sorted
    ELSE <<Head(sorted)>> \o Insert(Tail(sorted), x)

\* Sort that leaves the array as it is.
SortSkipped(seq) == seq

\* array.sort() with the default comparator, on an array of strings.
RECURSIVE Sort(_)
Sort(seq) ==
    IF seq = <<>> THEN <<>>
    ELSE Insert(Sort(SubSeq(seq, 1, Len(seq) - 1)), seq[Len(seq)])

\* map.has(k) / own property test, on a sequence of [key, value] entries.
Has(map, k) == \E i \in 1..Len(map) : map[i].key = k

\* map.get(k) / object[k] for a key that is present.
Get(map, k) == map[CHOOSE i \in 1..Len(map) : map[i].key = k].value

\* [...map.keys()] / Object.keys(object): insertion order.  (An object
\* lists keys that are array indices first; no name of the model is one.)
Keys(map) == [i \in 1..Len(map) |-> map[i].key]

\* Set that leaves the value of a present key as it is.
SetIfAbsent(map, k, v) ==
    IF Has(map, k) THEN map ELSE Append(map, [key |-> k, value |-> v])

\* map.set(k, v) / object[k] = v: a present key keeps its place.
Set(map, k, v) ==
    IF Has(map, k)
    THEN [i \in 1..Len(map) |->
            IF map[i].key = k THEN [key |-> k, value |-> v] ELSE map[i]]
    ELSE Append(map, [key |-> k, value |-> v])

\* NewMap that keeps the value of the first entry for a key.
RECURSIVE NewMapKeepFirst(_)
NewMapKeepFirst(entries) ==
    IF entries = <<>> THEN <<>>
    ELSE LET e    == entries[Len(entries)]
             prev == NewMapKeepFirst(SubSeq(entries, 1, Len(entries) - 1))
         IN  IF Has(prev, e.key) THEN prev ELSE Set(prev, e.key, e.value)

\* new Map(entries): a later entry for a key overwrites the earlier value.
RECURSIVE NewMap(_)
NewMap(entries) ==
    IF entries = <<>> THEN <<>>
    ELSE LET e == entries[Len(entries)]
         IN  Set(NewMap(SubSeq(entries, 1, Len(entries) - 1)), e.key, e.value)

\* Property names every object literal {} inherits from Object.prototype:
\* object[k] is a function, truthy and without push, unless k is an own key.
PrototypeKeys == {<<"c", "o", "n", "s", "t", "r", "u", "c", "t", "o", "r">>,
                  <<"v", "a", "l", "u", "e", "O", "f">>}

----------------------------------------------------------------------------
(* Snapshots *)

Users       == <<"u", "s", "e", "r", "s">>
User        == <<"u", "s", "e", "r">>
Orders      == <<"o", "r", "d", "e", "r", "s">>
Payments    == <<"p", "a", "y", "m", "e", "n", "t", "s">>
Constructor == <<"c", "o", "n", "s", "t", "r", "u", "c", "t", "o", "r">>

\* Rows of information_schema.tables; only table_name is read by the diff.
TableRows == {[table_name |-> n] : n \in {Users, User, Orders, Payments}}

Email == <<"e", "m", "a", "i", "l">>
Id    == <<"i", "d">>
Text  == <<"t", "e", "x", "t">>
Int4  == <<"i", "n", "t", "4">>
YES   == <<"Y", "E", "S">>
NO    == <<"N", "O">>
NEVER == <<"N", "E", "V", "E", "R">>

\* A row of information_schema.columns as the driver returns it for a
\* nullable text column without default.
BaseColumn(t, c) ==
    [table_name |-> t, column_name |-> c,
     data_type |-> Str(Text), udt_name |-> Str(Text),
     character_maximum_length |-> Null,
     numeric_precision |-> Null, numeric_scale |-> Null,
     is_nullable |-> Str(YES), column_default |-> Null,
     is_identity |-> Str(NO), identity_generation |-> Null,
     is_generated |-> Str(NEVER), generation_expression |-> Null]

\* The same column made NOT NULL.
NotNullColumn(t, c) == [BaseColumn(t, c) EXCEPT !.is_nullable = Str(NO)]

\* The same column with another representation of the same values: padded
\* text, empty strings and missing fields where the base row has null.
PaddedColumn(t, c) ==
    [BaseColumn(t, c) EXCEPT !.data_type = Str(<<" ">> \o Text \o <<"\t">>),
                             !.column_default = Str(<<>>),
                             !.numeric_scale = Undefined,
                             !.identity_generation = Str(<<" ", " ">>),
                             !.generation_expression = Undefined]

\* The same column as a NOT NULL integer.
IntColumn(t, c) ==
    [BaseColumn(t, c) EXCEPT !.data_type = Str(Int4), !.udt_name = Str(Int4),
                             !.numeric_precision = Num(<<"3", "2">>),
                             !.numeric_scale = Num(<<"0">>),
                             !.is_nullable = Str(NO)]

ColumnRows ==
    { BaseColumn(Users, Email), NotNullColumn(Users, Email),
      PaddedColumn(Users, Email), IntColumn(Users, Email),
      BaseColumn(Users, Id), BaseColumn(Orders, Id),
      BaseColumn(Constructor, Id) }

Pk    == <<"p", "k">>
Ix    == <<"i", "x">>
Btree == <<"b", "t", "r", "e", "e">>
Hash  == <<"h", "a", "s", "h">>

\* Rows of pg_indexes.
IndexRow(t, n, def) == [tablename |-> t, indexname |-> n, indexdef |-> def]

IndexRows ==
    { IndexRow(Users, Pk, Btree), IndexRow(Users, Pk, Hash),
      IndexRow(User, Pk, Btree), IndexRow(Orders, Ix, Btree),
      IndexRow(Orders, Ix, Hash) }

Fk     == <<"f", "k">>
UserId == <<"u", "i", "d">>

\* Rows of the foreign key query: one row per column of a constraint.
FkRow(t, n, c, ft, fc) ==
    [table_name |-> t, constraint_name |-> n, column_name |-> c,
     foreign_table_name |-> ft, foreign_column_name |-> fc]

ForeignKeyRows ==
    { FkRow(Orders, Fk, UserId, Users, Id),
      FkRow(Orders, Fk, Email, Users, Email),
      FkRow(Payments, Fk, UserId, Users, Id),
      FkRow(Orders, Ix, UserId, Users, Id) }

Status   == <<"s", "t", "a", "t", "u", "s">>
Mood     == <<"m", "o", "o", "d">>
Active   == <<"a", "c", "t", "i", "v", "e">>
Inactive == <<"i", "n", "a", "c", "t", "i", "v", "e">>
Archived == <<"a", "r", "c", "h", "i", "v", "e", "d">>

\* Rows of the enum query: one row per member of a type.
EnumRow(n, v) == [enum_name |-> n, enum_value |-> v]

EnumRows ==
    { EnumRow(Status, Active), EnumRow(Status, Inactive),
      EnumRow(Status, Archived), EnumRow(Mood, Active),
      EnumRow(Constructor, Active) }

Public == <<"p", "u", "b", "l", "i", "c">>

\* Rows of pg_policies.
PolicyRow(t, n, cmd, qual, check) ==
    [tablename |-> t, policyname |-> n,
     permissive |-> Str(<<"P", "E", "R", "M", "I", "S", "S", "I", "V", "E">>),
     roles |-> Arr(<<Public>>), cmd |-> Str(cmd),
     qual |-> qual, with_check |-> check]

PolicyRows ==
    { PolicyRow(Users, Pk, <<"A", "L", "L">>, Str(<<"t", "r", "u", "e">>), Null),
      PolicyRow(Users, Pk, <<"A", "L", "L">>, Str(<<"t", "r", "u", "e">>), Undefined),
      PolicyRow(Users, Ix, <<"A", "L", "L">>, Null, Null),
      PolicyRow(Orders, Pk, <<"A", "L", "L">>, Null, Null) }

F      == <<"f">>
G      == <<"g">>
Int    == <<"i", "n", "t">>
JsTrue  == Bool(<<"t", "r", "u", "e">>)
JsFalse == Bool(<<"f", "a", "l", "s", "e">>)

\* Rows of the function query.
FunctionRow(n, args, secdef) ==
    [function_name |-> n, arguments |-> args, return_type |-> Str(Int),
     kind |-> Str(<<"f", "u", "n", "c", "t", "i", "o", "n">>),
     security_definer |-> secdef, language |-> Str(<<"s", "q", "l">>)]

FunctionRows ==
    { FunctionRow(F, Int, JsTrue), FunctionRow(F, Int, JsFalse),
      FunctionRow(F, Text, JsFalse), FunctionRow(G, Int, JsFalse) }

INSERT == <<"I", "N", "S", "E", "R", "T">>
UPDATE == <<"U", "P", "D", "A", "T", "E">>
BEFORE == <<"B", "E", "F", "O", "R", "E">>
AFTER  == <<"A", "F", "T", "E", "R">>

\* Rows of information_schema.triggers: one row per trigger and event.
TriggerRow(t, n, ev, timing) ==
    [event_object_table |-> t, trigger_name |-> n, event_manipulation |-> ev,
     action_statement |-> Str(F), action_timing |-> Str(timing),
     action_orientation |-> Str(<<"R", "O", "W">>)]

TriggerRows ==
    { TriggerRow(Users, G, INSERT, BEFORE), TriggerRow(Users, G, INSERT, AFTER),
      TriggerRow(Users, G, UPDATE, BEFORE), TriggerRow(Orders, G, INSERT, AFTER) }

Categories ==
    {"tables", "columns", "indexes", "foreignKeys", "enums", "policies",
     "functions", "triggers"}

RowsOf(cat) ==
    CASE cat = "tables"      -> TableRows
      [] cat = "columns"     -> ColumnRows
      [] cat = "indexes"     -> IndexRows
      [] cat = "foreignKeys" -> ForeignKeyRows
      [] cat = "enums"       -> EnumRows
      [] cat = "policies"    -> PolicyRows
      [] cat = "functions"   -> FunctionRows
      [] cat = "triggers"    -> TriggerRows

\* Quoted identifiers that hold the characters identity keys are joined
\* with: "a::b" and "b::c", "a.b" and "b.c".
A     == <<"a">>
C     == <<"c">>
AccB  == <<"a", ":", ":", "b">>
BccC  == <<"b", ":", ":", "c">>
AdotB == <<"a", ".", "b">>
BdotC == <<"b", ".", "c">>

\* Rows of objects with such names.
SeparatorRowsOf(cat) ==
    CASE cat = "indexes"     ->
            { IndexRow(AccB, C, Btree), IndexRow(A, BccC, Hash) }
      [] cat = "foreignKeys" ->
            { FkRow(AdotB, C, UserId, Users, Id),
              FkRow(A, BdotC, Email, Users, Email) }
      [] cat = "policies"    ->
            { PolicyRow(AccB, C, <<"A", "L", "L">>, Null, Null),
              PolicyRow(A, BccC, <<"A", "L", "L">>, Str(<<"t", "r", "u", "e">>), Null) }
      [] cat = "triggers"    ->
            { TriggerRow(AccB, C, INSERT, BEFORE),
              TriggerRow(A, BccC, INSERT, AFTER) }

SeparatorCategories == {"indexes", "foreignKeys", "policies", "triggers"}

\* The rows the records of a run are drawn from: those of one category.
Universes ==
    {[cat |-> c, rows |-> RowsOf(c)] : c \in Categories}
        \cup {[cat |-> c, rows |-> SeparatorRowsOf(c)] : c \in SeparatorCategories}

\* Rows for a run with table records and column records together.
ListedTableRows == {[table_name |-> n] : n \in {Users, Orders}}

ListedColumnRows ==
    { BaseColumn(Users, Id), BaseColumn(Users, Email), BaseColumn(Orders, Id) }

EmptySchema == [cat \in Categories |-> <<>>]

\* All sequences over S of length at most n.
RECURSIVE SeqsUpTo(_, _)
SeqsUpTo(S, n) ==
    IF n = 0 THEN {<<>>}
    ELSE LET shorter == SeqsUpTo(S, n - 1)
         IN  shorter \cup {Append(q, x) : q \in {r \in shorter : Len(r) = n - 1}, x \in S}

----------------------------------------------------------------------------
(* Tables *)

\* diffTables with common left in the order of A's records.
diffTablesCommonUnsorted(a, b) ==
    LET namesA == NewSet([i \in 1..Len(a.tables) |-> a.tables[i].table_name])
        namesB == NewSet([i \in 1..Len(b.tables) |-> b.tables[i].table_name])
    IN  [onlyInA |-> Sort(Without(namesA, namesB)),
         onlyInB |-> Sort(Without(namesB, namesA)),
         common  |-> Within(namesA, namesB)]

diffTables(a, b) ==
    LET namesA == NewSet([i \in 1..Len(a.tables) |-> a.tables[i].table_name])
        namesB == NewSet([i \in 1..Len(b.tables) |-> b.tables[i].table_name])
    IN  [onlyInA |-> Sort(Without(namesA, namesB)),
         onlyInB |-> Sort(Without(namesB, namesA)),
         common  |-> Sort(Within(namesA, namesB))]

----------------------------------------------------------------------------
(* Helpers *)

\* normalize without the test for null and undefined.
normalizeKeepingNull(v) == Trim(ToString(v))

\* normalize without the trimming.
normalizeUntrimmed(v) ==
    IF v.t \in {"null", "undefined"} THEN <<>> ELSE ToString(v)

normalize(v) ==
    IF v.t \in {"null", "undefined"} THEN <<>> ELSE Trim(ToString(v))

\* groupBy(arr, item => item[f]).  The result is [threw, value]: with no own
\* entry for an inherited key, result[key] is truthy, no array is stored and
\* result[key].push raises a TypeError.
RECURSIVE groupBy(_, _)
groupBy(arr, f) ==
    IF arr = <<>> THEN [threw |-> FALSE, value |-> <<>>]
    ELSE LET prev == groupBy(SubSeq(arr, 1, Len(arr) - 1), f)
             item == arr[Len(arr)]
             key  == item[f]
         IN  IF prev.threw THEN prev
             ELSE IF Has(prev.value, key)
             THEN [prev EXCEPT !.value =
                      Set(prev.value, key, Append(Get(prev.value, key), item))]
             ELSE IF key \in PrototypeKeys
             THEN [threw |-> TRUE, value |-> <<>>]
             ELSE [prev EXCEPT !.value = Set(prev.value, key, <<item>>)]

----------------------------------------------------------------------------
(* Columns *)

fields ==
    << "data_type", "udt_name", "character_maximum_length",
       "numeric_precision", "numeric_scale", "is_nullable",
       "column_default", "is_identity", "identity_generation",
       "is_generated", "generation_expression" >>

\* compareColumnDetails that reports the value of a on both sides.
compareColumnDetailsOneSided(a, b) ==
    LET differs(f) == normalize(a[f]) # normalize(b[f])
        differing  == SelectSeq(fields, differs)
    IN  [i \in 1..Len(differing) |->
            [field  |-> differing[i],
             valueA |-> a[differing[i]],
             valueB |-> a[differing[i]]]]

compareColumnDetails(a, b) ==
    LET differs(f) == normalize(a[f]) # normalize(b[f])
        differing  == SelectSeq(fields, differs)
    IN  [i \in 1..Len(differing) |->
            [field  |-> differing[i],
             valueA |-> a[differing[i]],
             valueB |-> b[differing[i]]]]

\* find that returns the last record of the name.
findLast(cols, name) ==
    cols[CHOOSE i \in 1..Len(cols) :
            /\ cols[i].column_name = name
            /\ \A j \in (i + 1)..Len(cols) : cols[j].column_name # name]

\* array.find(c => c.column_name === name), for a name that is present.
find(cols, name) ==
    cols[CHOOSE i \in 1..Len(cols) :
            /\ cols[i].column_name = name
            /\ \A j \in 1..(i - 1) : cols[j].column_name # name]

\* One iteration of the loop over allTables: the record of one table.
columnsOfTable(mapA, mapB, table) ==
    LET colsA     == IF Has(mapA, table) THEN Get(mapA, table) ELSE <<>>
        colsB     == IF Has(mapB, table) THEN Get(mapB, table) ELSE <<>>
        colNamesA == NewSet([i \in 1..Len(colsA) |-> colsA[i].column_name])
        colNamesB == NewSet([i \in 1..Len(colsB) |-> colsB[i].column_name])
        both      == Within(colNamesA, colNamesB)
        entry(n)  == [column |-> n,
                      differences |->
                          compareColumnDetails(find(colsA, n), find(colsB, n))]
        isChanged(n) == Len(entry(n).differences) > 0
        changedNames == SelectSeq(both, isChanged)
    IN  [onlyInA |-> Without(colNamesA, colNamesB),
         onlyInB |-> Without(colNamesB, colNamesA),
         changed |-> [i \in 1..Len(changedNames) |-> entry(changedNames[i])]]

\* columnsLoop that stores the record of every table, empty or not.
RECURSIVE columnsLoopKeepEmpty(_, _, _)
columnsLoopKeepEmpty(mapA, mapB, tables) ==
    IF tables = <<>> THEN <<>>
    ELSE Set(columnsLoopKeepEmpty(mapA, mapB, SubSeq(tables, 1, Len(tables) - 1)),
             tables[Len(tables)],
             columnsOfTable(mapA, mapB, tables[Len(tables)]))

RECURSIVE columnsLoop(_, _, _)
columnsLoop(mapA, mapB, tables) ==
    IF tables = <<>> THEN <<>>
    ELSE LET result == columnsLoop(mapA, mapB, SubSeq(tables, 1, Len(tables) - 1))
             table  == tables[Len(tables)]
             d      == columnsOfTable(mapA, mapB, table)
         IN  IF Len(d.onlyInA) > 0 \/ Len(d.onlyInB) > 0 \/ Len(d.changed) > 0
             THEN Set(result, table, d)
             ELSE result

\* diffColumns over the tables the table records of a or b list.
diffColumnsOfListedTables(a, b) ==
    LET mapA == groupBy(a.columns, "table_name")
        mapB == groupBy(b.columns, "table_name")
        listed(t) == \E i \in 1..Len(a.tables \o b.tables) :
                        (a.tables \o b.tables)[i].table_name = t
    IN  IF mapA.threw \/ mapB.threw
        THEN [threw |-> TRUE, value |-> <<>>]
        ELSE LET allTables == NewSet(Keys(mapA.value) \o Keys(mapB.value))
             IN  [threw |-> FALSE,
                  value |-> columnsLoop(mapA.value, mapB.value,
                                        SelectSeq(allTables, listed))]

diffColumns(a, b) ==
    LET mapA == groupBy(a.columns, "table_name")
        mapB == groupBy(b.columns, "table_name")
    IN  IF mapA.threw \/ mapB.threw
        THEN [threw |-> TRUE, value |-> <<>>]
        ELSE LET allTables == NewSet(Keys(mapA.value) \o Keys(mapB.value))
             IN  [threw |-> FALSE,
                  value |-> columnsLoop(mapA.value, mapB.value, allTables)]

----------------------------------------------------------------------------
(* Keyed categories *)

\* [...mapA.keys()].filter(k => !mapB.has(k)).sort()
onlyIn(mapA, mapB) == Sort(Without(Keys(mapA), Keys(mapB)))

\* changedKeys followed by sort().
changedKeysSorted(mapA, mapB) ==
    LET differs(k) == Has(mapB, k) /\ Get(mapA, k) # Get(mapB, k)
    IN  Sort(SelectSeq(Keys(mapA), differs))

\* changedKeys without the comparison of the two values.
changedKeysAnyValue(mapA, mapB) ==
    LET shared(k) == Has(mapB, k) IN SelectSeq(Keys(mapA), shared)

\* [...mapA.keys()].filter(k => mapB.has(k) && mapA.get(k) !== mapB.get(k))
changedKeys(mapA, mapB) ==
    LET differs(k) == Has(mapB, k) /\ Get(mapA, k) # Get(mapB, k)
    IN  SelectSeq(Keys(mapA), differs)

indexesKeyFn(i) == i.tablename \o <<":", ":">> \o i.indexname

diffIndexes(a, b) ==
    LET entries(rows) ==
            [n \in 1..Len(rows) |->
                [key |-> indexesKeyFn(rows[n]), value |-> rows[n].indexdef]]
        mapA == NewMap(entries(a.indexes))
        mapB == NewMap(entries(b.indexes))
        ks   == changedKeys(mapA, mapB)
    IN  [onlyInA |-> onlyIn(mapA, mapB),
         onlyInB |-> onlyIn(mapB, mapA),
         changed |-> [n \in 1..Len(ks) |->
                        [key |-> ks[n], defA |-> Get(mapA, ks[n]),
                         defB |-> Get(mapB, ks[n])]]]

foreignKeysKeyFn(fk) == fk.table_name \o <<".">> \o fk.constraint_name

foreignKeysValFn(fk) ==
    fk.column_name \o <<"-", ">">> \o fk.foreign_table_name
        \o <<".">> \o fk.foreign_column_name

diffForeignKeys(a, b) ==
    LET entries(rows) ==
            [n \in 1..Len(rows) |->
                [key |-> foreignKeysKeyFn(rows[n]), value |-> foreignKeysValFn(rows[n])]]
        mapA == NewMap(entries(a.foreignKeys))
        mapB == NewMap(entries(b.foreignKeys))
        ks   == changedKeys(mapA, mapB)
    IN  [onlyInA |-> onlyIn(mapA, mapB),
         onlyInB |-> onlyIn(mapB, mapA),
         changed |-> [n \in 1..Len(ks) |->
                        [key |-> ks[n], valueA |-> Get(mapA, ks[n]),
                         valueB |-> Get(mapB, ks[n])]]]

policiesKeyFn(p) == p.tablename \o <<":", ":">> \o p.policyname

policiesValFn(p) ==
    StringifyObject(<<"permissive", "roles", "cmd", "qual", "with_check">>, p)

diffPolicies(a, b) ==
    LET entries(rows) ==
            [n \in 1..Len(rows) |->
                [key |-> policiesKeyFn(rows[n]), value |-> policiesValFn(rows[n])]]
        mapA == NewMap(entries(a.policies))
        mapB == NewMap(entries(b.policies))
        ks   == changedKeys(mapA, mapB)
    IN  [onlyInA |-> onlyIn(mapA, mapB),
         onlyInB |-> onlyIn(mapB, mapA),
         changed |-> [n \in 1..Len(ks) |->
                        [key |-> ks[n], valueA |-> Get(mapA, ks[n]),
                         valueB |-> Get(mapB, ks[n])]]]

functionsKeyFn(f) == f.function_name \o <<"(">> \o f.arguments \o <<")">>

functionsValFn(f) ==
    StringifyObject(<<"return_type", "kind", "security_definer", "language">>, f)

diffFunctions(a, b) ==
    LET entries(rows) ==
            [n \in 1..Len(rows) |->
                [key |-> functionsKeyFn(rows[n]), value |-> functionsValFn(rows[n])]]
        mapA == NewMap(entries(a.functions))
        mapB == NewMap(entries(b.functions))
        ks   == changedKeys(mapA, mapB)
    IN  [onlyInA |-> onlyIn(mapA, mapB),
         onlyInB |-> onlyIn(mapB, mapA),
         changed |-> [n \in 1..Len(ks) |->
                        [key |-> ks[n], signatureA |-> Get(mapA, ks[n]),
                         signatureB |-> Get(mapB, ks[n])]]]

triggersKeyFn(t) ==
    t.event_object_table \o <<":", ":">> \o t.trigger_name
        \o <<":", ":">> \o t.event_manipulation

triggersValFn(t) ==
    StringifyObject(
        <<"action_statement", "action_timing", "action_orientation">>, t)

diffTriggers(a, b) ==
    LET entries(rows) ==
            [n \in 1..Len(rows) |->
                [key |-> triggersKeyFn(rows[n]), value |-> triggersValFn(rows[n])]]
        mapA == NewMap(entries(a.triggers))
        mapB == NewMap(entries(b.triggers))
        ks   == changedKeys(mapA, mapB)
    IN  [onlyInA |-> onlyIn(mapA, mapB),
         onlyInB |-> onlyIn(mapB, mapA),
         changed |-> [n \in 1..Len(ks) |->
                        [key |-> ks[n], valueA |-> Get(mapA, ks[n]),
                         valueB |-> Get(mapB, ks[n])]]]

----------------------------------------------------------------------------
(* Enums *)

\* buildMap that keeps only the last value of a type.
RECURSIVE buildMapOverwriting(_)
buildMapOverwriting(enums) ==
    IF enums = <<>> THEN [threw |-> FALSE, value |-> <<>>]
    ELSE LET prev == buildMapOverwriting(SubSeq(enums, 1, Len(enums) - 1))
             e    == enums[Len(enums)]
         IN  IF prev.threw THEN prev
             ELSE IF ~Has(prev.value, e.enum_name) /\ e.enum_name \in PrototypeKeys
             THEN [threw |-> TRUE, value |-> <<>>]
             ELSE [prev EXCEPT !.value =
                      Set(prev.value, e.enum_name, <<e.enum_value>>)]

\* The result is [threw, value]: as in groupBy, a type name that
\* Object.prototype defines makes map[e.enum_name].push raise a TypeError.
RECURSIVE buildMap(_)
buildMap(enums) ==
    IF enums = <<>> THEN [threw |-> FALSE, value |-> <<>>]
    ELSE LET prev == buildMap(SubSeq(enums, 1, Len(enums) - 1))
             e    == enums[Len(enums)]
         IN  IF prev.threw THEN prev
             ELSE IF Has(prev.value, e.enum_name)
             THEN [prev EXCEPT !.value =
                      Set(prev.value, e.enum_name,
                          Append(Get(prev.value, e.enum_name), e.enum_value))]
             ELSE IF e.enum_name \in PrototypeKeys
             THEN [threw |-> TRUE, value |-> <<>>]
             ELSE [prev EXCEPT !.value =
                      Set(prev.value, e.enum_name, <<e.enum_value>>)]

diffEnums(a, b) ==
    LET mapA == buildMap(a.enums)
        mapB == buildMap(b.enums)
    IN  IF mapA.threw \/ mapB.threw
        THEN [threw |-> TRUE, value |-> <<>>]
        ELSE LET namesA  == NewSet(Keys(mapA.value))
                 namesB  == NewSet(Keys(mapB.value))
                 valsA(name) == Sort(Get(mapA.value, name))
                 valsB(name) == Sort(Get(mapB.value, name))
                 differs(name) ==
                     /\ Contains(namesB, name)
                     /\ StringifyArray(valsA(name)) # StringifyArray(valsB(name))
                 names   == SelectSeq(namesA, differs)
             IN  [threw |-> FALSE,
                  value |->
                    [onlyInA |-> Sort(Without(namesA, namesB)),
                     onlyInB |-> Sort(Without(namesB, namesA)),
                     changed |-> [n \in 1..Len(names) |->
                                    [name    |-> names[n],
                                     valuesA |-> valsA(names[n]),
                                     valuesB |-> valsB(names[n])]]]]

----------------------------------------------------------------------------
(* The orchestrator *)

DatabaseA == <<"D", "a", "t", "a", "b", "a", "s", "e", " ", "A">>
DatabaseB == <<"D", "a", "t", "a", "b", "a", "s", "e", " ", "B">>

NoSection == [onlyInA |-> <<>>, onlyInB |-> <<>>, changed |-> <<>>]

NoDiff ==
    [labelA      |-> <<>>,
     labelB      |-> <<>>,
     tables      |-> [onlyInA |-> <<>>, onlyInB |-> <<>>, common |-> <<>>],
     columns     |-> <<>>,
     indexes     |-> NoSection,
     foreignKeys |-> NoSection,
     enums       |-> NoSection,
     policies    |-> NoSection,
     functions   |-> NoSection,
     triggers    |-> NoSection]

\* The object literal evaluates the routines in order; the first TypeError
\* ends the call and no result exists.
diffSchemas(a, b, labelA, labelB) ==
    LET columns == diffColumns(a, b)
        enums   == diffEnums(a, b)
    IN  IF columns.threw \/ enums.threw
        THEN [threw |-> TRUE, value |-> NoDiff]
        ELSE [threw |-> FALSE,
              value |-> [labelA      |-> labelA,
                         labelB      |-> labelB,
                         tables      |-> diffTables(a, b),
                         columns     |-> columns.value,
                         indexes     |-> diffIndexes(a, b),
                         foreignKeys |-> diffForeignKeys(a, b),
                         enums       |-> enums.value,
                         policies    |-> diffPolicies(a, b),
                         functions   |-> diffFunctions(a, b),
                         triggers    |-> diffTriggers(a, b)]]

\* The arguments as a call of diffSchemas leaves them, with enum rows put
\* in the order of their values.
argumentsAfterSortingEnums(a, b) ==
    LET byValue(rows) ==
            LET vals == Sort([i \in 1..Len(rows) |-> rows[i].enum_value])
            IN  [i \in 1..Len(rows) |->
                    rows[CHOOSE j \in 1..Len(rows) : rows[j].enum_value = vals[i]]]
    IN  [a |-> [a EXCEPT !.enums = byValue(a.enums)],
         b |-> [b EXCEPT !.enums = byValue(b.enums)]]

\* The arguments as a call of diffSchemas leaves them.  No routine assigns
\* to a property of a snapshot or of a record; filter, map and the spread
\* of a Set build new arrays, and every sort() acts on such an array or,
\* in diffEnums, on the array buildMap has filled with the values.
argumentsAfter(a, b) == [a |-> a, b |-> b]

----------------------------------------------------------------------------
(* The summary *)

\* The loop over Object.values(diff.columns) that keeps, in each total, the
\* count of the last table only.
RECURSIVE columnTotalsOfLastTable(_)
columnTotalsOfLastTable(columns) ==
    IF columns = <<>>
    THEN [columnsOnlyA |-> 0, columnsOnlyB |-> 0, columnsChanged |-> 0]
    ELSE LET table == columns[Len(columns)].value
         IN  [columnsOnlyA   |-> Len(table.onlyInA),
              columnsOnlyB   |-> Len(table.onlyInB),
              columnsChanged |-> Len(table.changed)]

\* The loop over Object.values(diff.columns).
RECURSIVE columnTotals(_)
columnTotals(columns) ==
    IF columns = <<>>
    THEN [columnsOnlyA |-> 0, columnsOnlyB |-> 0, columnsChanged |-> 0]
    ELSE LET sofar == columnTotals(SubSeq(columns, 1, Len(columns) - 1))
             table == columns[Len(columns)].value
         IN  [columnsOnlyA   |-> sofar.columnsOnlyA + Len(table.onlyInA),
              columnsOnlyB   |-> sofar.columnsOnlyB + Len(table.onlyInB),
              columnsChanged |-> sofar.columnsChanged + Len(table.changed)]

computeStats(d) ==
    LET totals == columnTotals(d.columns)
    IN  [tablesOnlyA      |-> Len(d.tables.onlyInA),
         tablesOnlyB      |-> Len(d.tables.onlyInB),
         tablesCommon     |-> Len(d.tables.common),
         columnsOnlyA     |-> totals.columnsOnlyA,
         columnsOnlyB     |-> totals.columnsOnlyB,
         columnsChanged   |-> totals.columnsChanged,
         indexesOnlyA     |-> Len(d.indexes.onlyInA),
         indexesOnlyB     |-> Len(d.indexes.onlyInB),
         indexesChanged   |-> Len(d.indexes.changed),
         fksOnlyA         |-> Len(d.foreignKeys.onlyInA),
         fksOnlyB         |-> Len(d.foreignKeys.onlyInB),
         fksChanged       |-> Len(d.foreignKeys.changed),
         enumsOnlyA       |-> Len(d.enums.onlyInA),
         enumsOnlyB       |-> Len(d.enums.onlyInB),
         enumsChanged     |-> Len(d.enums.changed),
         policiesOnlyA    |-> Len(d.policies.onlyInA),
         policiesOnlyB    |-> Len(d.policies.onlyInB),
         policiesChanged  |-> Len(d.policies.changed),
         functionsOnlyA   |-> Len(d.functions.onlyInA),
         functionsOnlyB   |-> Len(d.functions.onlyInB),
         functionsChanged |-> Len(d.functions.changed),
         triggersOnlyA    |-> Len(d.triggers.onlyInA),
         triggersOnlyB    |-> Len(d.triggers.onlyInB),
         triggersChanged  |-> Len(d.triggers.changed)]

\* stats before computeStats has returned.
NoStats == computeStats(NoDiff)

----------------------------------------------------------------------------
(* The JSON report *)

\* The string a JSON string literal's content denotes: Escape undone.
RECURSIVE Unescape(_)
Unescape(s) ==
    IF s = <<>> THEN <<>>
    ELSE IF Head(s) = "\\" /\ Len(s) > 1
    THEN (CASE s[2] = "t" -> <<"\t">>
            [] OTHER      -> <<s[2]>>) \o Unescape(SubSeq(s, 3, Len(s)))
    ELSE <<Head(s)>> \o Unescape(Tail(s))

\* JSON.parse of the text of a null, a string, a boolean or a number.
ParseValue(text) ==
    CASE text = <<"n", "u", "l", "l">> -> Null
      [] Head(text) = "\""            -> Str(Unescape(SubSeq(text, 2, Len(text) - 1)))
      [] Head(text) \in {"t", "f"}    -> Bool(text)
      [] OTHER                        -> Num(text)

\* JSON.parse(JSON.stringify(s)) for a string, and for an array of strings.
parsedString(s) == ParseValue(Quote(s)).s

parsedStrings(items) == [i \in 1..Len(items) |-> parsedString(items[i])]

\* The own properties of an object literal, in order, as [key, value]
\* entries: the properties named, whatever their values.
OwnProperties(names, obj) ==
    [i \in 1..Len(names) |-> [key |-> names[i], value |-> obj[names[i]]]]

\* The own properties of JSON.parse(JSON.stringify(obj)) for an object
\* literal with the properties named: JSON.stringify writes no member for
\* a property whose value is undefined, so the parsed object has none.
parsedProperties(names, obj) ==
    LET written(n) == obj[n].t # "undefined"
        members    == SelectSeq(names, written)
    IN  [i \in 1..Len(members) |->
            [key   |-> members[i],
             value |-> ParseValue(StringifyValue(obj[members[i]]))]]

\* A diff with each column difference given by its own properties.
WithOwnProperties(d) ==
    [d EXCEPT !.columns =
        [t \in 1..Len(d.columns) |->
            [d.columns[t] EXCEPT !.value.changed =
                [i \in 1..Len(d.columns[t].value.changed) |->
                    LET ch == d.columns[t].value.changed[i]
                    IN  [ch EXCEPT !.differences =
                            [j \in 1..Len(ch.differences) |->
                                <<[key |-> "field", value |-> ch.differences[j].field]>>
                                \o OwnProperties(<<"valueA", "valueB">>,
                                                 ch.differences[j])]]]]]]

\* JSON.parse(JSON.stringify(diff, null, 2)): what a reader of the file the
\* --json flag writes gets back.  The names of the properties are written
\* and read as they are; a field name of a column difference is one of the
\* eleven of fields.
parsedJson(d) ==
    LET valued(sec) ==
            [onlyInA |-> parsedStrings(sec.onlyInA),
             onlyInB |-> parsedStrings(sec.onlyInB),
             changed |-> [i \in 1..Len(sec.changed) |->
                            [key    |-> parsedString(sec.changed[i].key),
                             valueA |-> parsedString(sec.changed[i].valueA),
                             valueB |-> parsedString(sec.changed[i].valueB)]]]
        difference(e) ==
            <<[key |-> "field", value |-> e.field]>>
            \o parsedProperties(<<"valueA", "valueB">>, e)
        column(ch) ==
            [column      |-> parsedString(ch.column),
             differences |-> [j \in 1..Len(ch.differences) |->
                                difference(ch.differences[j])]]
        table(entry) ==
            [key   |-> parsedString(entry.key),
             value |-> [onlyInA |-> parsedStrings(entry.value.onlyInA),
                        onlyInB |-> parsedStrings(entry.value.onlyInB),
                        changed |-> [i \in 1..Len(entry.value.changed) |->
                                       column(entry.value.changed[i])]]]
    IN  [labelA      |-> parsedString(d.labelA),
         labelB      |-> parsedString(d.labelB),
         tables      |-> [onlyInA |-> parsedStrings(d.tables.onlyInA),
                          onlyInB |-> parsedStrings(d.tables.onlyInB),
                          common  |-> parsedStrings(d.tables.common)],
         columns     |-> [t \in 1..Len(d.columns) |-> table(d.columns[t])],
         indexes     |->
            [onlyInA |-> parsedStrings(d.indexes.onlyInA),
             onlyInB |-> parsedStrings(d.indexes.onlyInB),
             changed |-> [i \in 1..Len(d.indexes.changed) |->
                            [key  |-> parsedString(d.indexes.changed[i].key),
                             defA |-> parsedString(d.indexes.changed[i].defA),
                             defB |-> parsedString(d.indexes.changed[i].defB)]]],
         foreignKeys |-> valued(d.foreignKeys),
         enums       |->
            [onlyInA |-> parsedStrings(d.enums.onlyInA),
             onlyInB |-> parsedStrings(d.enums.onlyInB),
             changed |-> [i \in 1..Len(d.enums.changed) |->
                            [name    |-> parsedString(d.enums.changed[i].name),
                             valuesA |-> parsedStrings(d.enums.changed[i].valuesA),
                             valuesB |-> parsedStrings(d.enums.changed[i].valuesB)]]],
         policies    |-> valued(d.policies),
         functions   |->
            [onlyInA |-> parsedStrings(d.functions.onlyInA),
             onlyInB |-> parsedStrings(d.functions.onlyInB),
             changed |-> [i \in 1..Len(d.functions.changed) |->
                            [key        |-> parsedString(d.functions.changed[i].key),
                             signatureA |-> parsedString(d.functions.changed[i].signatureA),
                             signatureB |-> parsedString(d.functions.changed[i].signatureB)]]],
         triggers    |-> valued(d.triggers)]

----------------------------------------------------------------------------
(* The run: two snapshots are extracted, then compared.                     *)

\* The two extractions of a run.
Sides == {"A", "B"}

\* The HTTP server, the serverless handler and the command line.
EntryPoints == {"server", "handler", "cli"}
(*                                                                         *)
(* Each routine reads only its own category of the two snapshots, so the   *)
(* snapshots of a run hold records in one category, or table records and   *)
(* column records together, at most MaxRows of them in A and B together,   *)
(* in any order and with any repetition.                                   *)

Init ==
    /\ \/ \E u \in Universes :
            \E rowsA \in SeqsUpTo(u.rows, MaxRows) :
              \E rowsB \in SeqsUpTo(u.rows, MaxRows - Len(rowsA)) :
                /\ schemaA = [EmptySchema EXCEPT ![u.cat] = rowsA]
                /\ schemaB = [EmptySchema EXCEPT ![u.cat] = rowsB]
       \/ \E tablesA \in SeqsUpTo(ListedTableRows, MaxRows) :
            \E tablesB \in SeqsUpTo(ListedTableRows, MaxRows - Len(tablesA)) :
              LET left == MaxRows - Len(tablesA) - Len(tablesB)
              IN  \E colsA \in SeqsUpTo(ListedColumnRows, left) :
                    \E colsB \in SeqsUpTo(ListedColumnRows, left - Len(colsA)) :
                      /\ schemaA = [EmptySchema EXCEPT !.tables = tablesA,
                                                       !.columns = colsA]
                      /\ schemaB = [EmptySchema EXCEPT !.tables = tablesB,
                                                       !.columns = colsB]
    /\ pc = "extracted"
    /\ outcome = "none"
    /\ diff = NoDiff
    /\ stats = NoStats
    /\ entryPoint = "handler"
    /\ extraction = [s \in Sides |-> "fulfilled"]
    /\ response = "none"
    /\ clientEnds = [s \in Sides |-> 1]

DiffSchemas ==
    /\ pc = "extracted"
    /\ LET r == diffSchemas(schemaA, schemaB, DatabaseA, DatabaseB)
       IN  /\ outcome' = IF r.threw THEN "TypeError" ELSE "returned"
           /\ diff' = r.value
    /\ LET after == argumentsAfter(schemaA, schemaB)
       IN  /\ schemaA' = after.a
           /\ schemaB' = after.b
    /\ pc' = "diffed"
    /\ UNCHANGED <<stats, entryPoint, extraction, response, clientEnds>>

\* computeStats reads lengths and adds them up; it assigns to its own
\* three totals and to nothing of diff.
ComputeStats ==
    /\ pc = "diffed"
    /\ outcome = "returned"
    /\ stats' = computeStats(diff)
    /\ pc' = "reported"
    /\ UNCHANGED <<schemaA, schemaB, outcome, diff, entryPoint, extraction, response, clientEnds>>

Next == DiffSchemas \/ ComputeStats

Spec == Init /\ [][Next]_vars

----------------------------------------------------------------------------
(* The entry points: the whole run, from the request or the command line   *)
(* to the response or the exit.                                            *)

\* What the two databases may hold.
EntrySnapshots ==
    { EmptySchema,
      [EmptySchema EXCEPT !.tables = <<[table_name |-> Users]>>],
      [EmptySchema EXCEPT !.enums = <<EnumRow(Constructor, Active)>>] }

\* The outcome of a run that fails and of one that succeeds: the status of
\* the HTTP response, or the exit code of the command.
ErrorResponse   == IF entryPoint = "cli" THEN "exit 1" ELSE "500"
SuccessResponse == IF entryPoint = "cli" THEN "exit 0" ELSE "200"

\* After process.exit nothing of the process runs.
Exited == entryPoint = "cli" /\ response # "none"

EntryInit ==
    /\ entryPoint \in EntryPoints
    /\ pc = "start"
    /\ schemaA = EmptySchema
    /\ schemaB = EmptySchema
    /\ extraction = [s \in Sides |-> "idle"]
    /\ outcome = "none"
    /\ diff = NoDiff
    /\ stats = NoStats
    /\ response = "none"
    /\ clientEnds = [s \in Sides |-> 0]

\* A connection string is missing: the run ends before any extraction.
MissingConnection ==
    /\ pc = "start"
    /\ response' = ErrorResponse
    /\ pc' = "done"
    /\ UNCHANGED <<schemaA, schemaB, outcome, diff, stats, entryPoint, extraction, clientEnds>>

\* Promise.all([extractSchema(connA), extractSchema(connB)]): both calls
\* run up to their first await, client.connect(), before the await of the
\* entry point.
StartExtractions ==
    /\ pc = "start"
    /\ extraction' = [s \in Sides |-> "connecting"]
    /\ pc' = "awaiting"
    /\ UNCHANGED <<schemaA, schemaB, outcome, diff, stats, entryPoint, response, clientEnds>>

\* await client.connect() settles.
Connect(s) ==
    /\ ~Exited
    /\ extraction[s] = "connecting"
    /\ \E connected \in BOOLEAN :
          extraction' = [extraction EXCEPT ![s] =
                            IF connected THEN "querying" ELSE "failing"]
    /\ UNCHANGED <<schemaA, schemaB, pc, outcome, diff, stats, entryPoint, response, clientEnds>>

\* The Promise.all of the eight queries settles; the rows read are the
\* value extractSchema returns once the client has ended.
Queries(s) ==
    /\ ~Exited
    /\ extraction[s] = "querying"
    /\ \/ /\ extraction' = [extraction EXCEPT ![s] = "returning"]
          /\ \E snapshot \in EntrySnapshots :
                IF s = "A"
                THEN schemaA' = snapshot /\ UNCHANGED schemaB
                ELSE schemaB' = snapshot /\ UNCHANGED schemaA
       \/ /\ extraction' = [extraction EXCEPT ![s] = "failing"]
          /\ UNCHANGED <<schemaA, schemaB>>
    /\ UNCHANGED <<pc, outcome, diff, stats, entryPoint, response, clientEnds>>

\* finally { await client.end() }: client.end() is called, and when it has
\* settled the promise of extractSchema does; it rejects if connect or a
\* query has, or if client.end() does.  clientEnds counts the calls.
End(s) ==
    /\ ~Exited
    /\ extraction[s] \in {"returning", "failing"}
    /\ \E ended \in BOOLEAN :
          extraction' = [extraction EXCEPT ![s] =
                            IF extraction[s] = "returning" /\ ended
                            THEN "fulfilled" ELSE "rejected"]
    /\ clientEnds' = [clientEnds EXCEPT ![s] = clientEnds[s] + 1]
    /\ UNCHANGED <<schemaA, schemaB, pc, outcome, diff, stats, entryPoint, response>>

\* Resume as soon as one of the two promises has fulfilled.
ResumeOnFirst ==
    /\ pc = "awaiting"
    /\ \E s \in Sides : extraction[s] = "fulfilled"
    /\ pc' = "extracted"
    /\ UNCHANGED <<schemaA, schemaB, outcome, diff, stats, entryPoint, extraction, response, clientEnds>>

\* The await of Promise.all resumes the entry point with both snapshots.
Resume ==
    /\ pc = "awaiting"
    /\ \A s \in Sides : extraction[s] = "fulfilled"
    /\ pc' = "extracted"
    /\ UNCHANGED <<schemaA, schemaB, outcome, diff, stats, entryPoint, extraction, response, clientEnds>>

\* The await of Promise.all throws at the first rejection: the catch block
\* answers 500, or prints the error and exits with code 1.
CatchRejection ==
    /\ pc = "awaiting"
    /\ \E s \in Sides : extraction[s] = "rejected"
    /\ response' = ErrorResponse
    /\ pc' = "done"
    /\ UNCHANGED <<schemaA, schemaB, outcome, diff, stats, entryPoint, extraction, clientEnds>>

\* The same catch block, for the TypeError of diffSchemas.
CatchTypeError ==
    /\ pc = "diffed"
    /\ outcome = "TypeError"
    /\ response' = ErrorResponse
    /\ pc' = "done"
    /\ UNCHANGED <<schemaA, schemaB, outcome, diff, stats, entryPoint, extraction, clientEnds>>

\* The response with stats and diff, or the end of main after the reports.
Respond ==
    /\ pc = "reported"
    /\ response' = SuccessResponse
    /\ pc' = "done"
    /\ UNCHANGED <<schemaA, schemaB, outcome, diff, stats, entryPoint, extraction, clientEnds>>

EntryNext ==
    \/ MissingConnection
    \/ StartExtractions
    \/ \E s \in Sides : Connect(s)
    \/ \E s \in Sides : Queries(s)
    \/ \E s \in Sides : End(s)
    \/ Resume
    \/ CatchRejection
    \/ DiffSchemas
    \/ CatchTypeError
    \/ ComputeStats
    \/ Respond

EntrySpec == EntryInit /\ [][EntryNext]_vars

----------------------------------------------------------------------------
(* Vocabulary of the properties *)

SimpleCategories == {"indexes", "foreignKeys", "policies", "functions", "triggers"}

Returned == pc = "diffed" /\ outcome = "returned"

\* The identity key of a record of a simple category.
KeyOf(cat, r) ==
    CASE cat = "indexes"     -> indexesKeyFn(r)
      [] cat = "foreignKeys" -> foreignKeysKeyFn(r)
      [] cat = "policies"    -> policiesKeyFn(r)
      [] cat = "functions"   -> functionsKeyFn(r)
      [] cat = "triggers"    -> triggersKeyFn(r)

\* The comparison value of a record of a simple category.
ValueOf(cat, r) ==
    CASE cat = "indexes"     -> r.indexdef
      [] cat = "foreignKeys" -> foreignKeysValFn(r)
      [] cat = "policies"    -> policiesValFn(r)
      [] cat = "functions"   -> functionsValFn(r)
      [] cat = "triggers"    -> triggersValFn(r)

KeysIn(cat, rows) == {KeyOf(cat, rows[i]) : i \in 1..Len(rows)}

\* The comparison value a snapshot holds for a key: that of the last record
\* with the key.
ValueIn(cat, rows, k) ==
    LET last == CHOOSE i \in 1..Len(rows) :
                    /\ KeyOf(cat, rows[i]) = k
                    /\ \A j \in (i + 1)..Len(rows) : KeyOf(cat, rows[j]) # k
    IN  ValueOf(cat, rows[last])

\* The A-side and B-side values of a changed entry, whatever their names.
SideA(cat, e) ==
    CASE cat = "indexes"   -> e.defA
      [] cat = "functions" -> e.signatureA
      [] OTHER             -> e.valueA

SideB(cat, e) ==
    CASE cat = "indexes"   -> e.defB
      [] cat = "functions" -> e.signatureB
      [] OTHER             -> e.valueB

Disjoint(S, T) == S \cap T = {}

Ascending(seq) == \A i \in 1..(Len(seq) - 1) : StrLess(seq[i], seq[i + 1])

NoRepeat(seq) == \A i, j \in 1..Len(seq) : i # j => seq[i] # seq[j]

----------------------------------------------------------------------------
(* C1 *)

KeyedSetsExact(cat) ==
    LET d     == diff[cat]
        keysA == KeysIn(cat, schemaA[cat])
        keysB == KeysIn(cat, schemaB[cat])
        chKeys == {d.changed[i].key : i \in 1..Len(d.changed)}
    IN  /\ Range(d.onlyInA) = keysA \ keysB
        /\ Range(d.onlyInB) = keysB \ keysA
        /\ chKeys = {k \in keysA \cap keysB :
                        ValueIn(cat, schemaA[cat], k) # ValueIn(cat, schemaB[cat], k)}
        /\ \A i, j \in 1..Len(d.changed) :
              i # j => d.changed[i].key # d.changed[j].key
        /\ Disjoint(Range(d.onlyInA), Range(d.onlyInB))
        /\ Disjoint(Range(d.onlyInA), chKeys)
        /\ Disjoint(Range(d.onlyInB), chKeys)

\* C1: in each of the five simple categories of a returned diff, onlyInA is
\* exactly the set of keys occurring in A and not in B, onlyInB exactly the
\* set of keys occurring in B and not in A, changed has exactly one entry
\* for each key of both sides whose comparison values (those of the last
\* record with the key) differ and none for any other key, and the three
\* key sets are pairwise disjoint.
C1_KeyedSetsExact ==
    Returned => \A cat \in SimpleCategories : KeyedSetsExact(cat)

FofInt == <<"f", "(", "i", "n", "t", ")">>

\* Scenario 5 with neighbours: f(int) is SECURITY DEFINER in A only, and
\* each side has a function the other lacks.
C1_Witness ==
    /\ Returned
    /\ Len(diff.functions.changed) = 1
    /\ diff.functions.changed[1].key = FofInt
    /\ diff.functions.changed[1].signatureA # diff.functions.changed[1].signatureB
    /\ diff.functions.onlyInA # <<>>
    /\ diff.functions.onlyInB # <<>>

----------------------------------------------------------------------------
(* C2 *)

SectionCategories ==
    {"tables", "indexes", "foreignKeys", "enums", "policies", "functions",
     "triggers"}

SortedNoRepeat(seq) == Ascending(seq) /\ NoRepeat(seq)

\* The sort invariant on the seven sections that are not keyed by table.
SectionsSorted ==
    \A cat \in SectionCategories :
        SortedNoRepeat(diff[cat].onlyInA) /\ SortedNoRepeat(diff[cat].onlyInB)

\* The sort invariant on the per-table lists of the columns sub-result.
ColumnListsSorted ==
    \A i \in 1..Len(diff.columns) :
        /\ SortedNoRepeat(diff.columns[i].value.onlyInA)
        /\ SortedNoRepeat(diff.columns[i].value.onlyInB)

\* C2: in a returned diff every onlyInA and onlyInB sequence of every
\* category, the per-table lists of the columns sub-result included, is in
\* ascending lexicographic order and has no element twice.
C2_SortInvariant == Returned => SectionsSorted /\ ColumnListsSorted

----------------------------------------------------------------------------
(* C3 *)

SectionEmpty(cat) ==
    /\ diff[cat].onlyInA = <<>>
    /\ diff[cat].onlyInB = <<>>
    /\ cat # "tables" => diff[cat].changed = <<>>

NothingReported ==
    /\ \A cat \in SectionCategories : SectionEmpty(cat)
    /\ diff.columns = <<>>

TableNames(schema) == {schema.tables[i].table_name : i \in 1..Len(schema.tables)}

\* C3 as claimed: a returned diff of a snapshot with itself reports nothing
\* and tables.common has as many entries as the snapshot has table records.
C3_SelfDiffCountsRecords ==
    Returned /\ schemaA = schemaB =>
        /\ NothingReported
        /\ Len(diff.tables.common) = Len(schemaA.tables)

\* C3 as amended: a returned diff of a snapshot with itself reports nothing
\* in any category, the columns sub-result has no table key, and
\* tables.common has as many entries as the snapshot has distinct table
\* names.
C3_SelfDiffCountsNames ==
    Returned /\ schemaA = schemaB =>
        /\ NothingReported
        /\ Len(diff.tables.common) = Cardinality(TableNames(schemaA))

\* A snapshot that lists one table name twice is compared with itself.
C3_Witness ==
    /\ Returned
    /\ schemaA = schemaB
    /\ Len(schemaA.tables) = 2
    /\ schemaA.tables[1] = schemaA.tables[2]
    /\ Len(diff.tables.common) = 1

----------------------------------------------------------------------------
(* C4 *)

EmptyOnBothSides(cat) == schemaA[cat] = <<>> /\ schemaB[cat] = <<>>

\* C4: the call returns a result for every pair of well-formed snapshots,
\* whatever strings their names are, and a category that is empty on both
\* sides has an empty section in it.
C4_NeverThrows ==
    pc = "diffed" =>
        /\ outcome = "returned"
        /\ \A cat \in SectionCategories : EmptyOnBothSides(cat) => SectionEmpty(cat)
        /\ EmptyOnBothSides("columns") => diff.columns = <<>>

----------------------------------------------------------------------------
(* C5 *)

\* The eleven compared fields.
ComparedFields ==
    {"data_type", "udt_name", "character_maximum_length", "numeric_precision",
     "numeric_scale", "is_nullable", "column_default", "is_identity",
     "identity_generation", "is_generated", "generation_expression"}

\* The normal form of a field value: null and missing are the empty string,
\* anything else its string form without surrounding whitespace.
Canonical(v) ==
    IF v.t = "null" \/ v.t = "undefined" THEN <<>> ELSE Trim(ToString(v))

\* null, missing, the empty string or a string of whitespace only.
Blank(v) ==
    \/ v.t \in {"null", "undefined"}
    \/ v.t = "string" /\ \A i \in 1..Len(v.s) : v.s[i] \in WhiteSpace

\* Two values that differ at most in how the same content is represented.
SameContent(x, y) ==
    \/ Blank(x) /\ Blank(y)
    \/ x.t = "string" /\ y.t = "string" /\ Trim(x.s) = Trim(y.s)

ColumnTables(schema) ==
    {schema.columns[i].table_name : i \in 1..Len(schema.columns)}

ColumnNames(schema, t) ==
    {schema.columns[i].column_name :
        i \in {j \in 1..Len(schema.columns) : schema.columns[j].table_name = t}}

\* The record compared for a column: the first one of that table and name.
ColumnRecord(schema, t, c) ==
    LET at(i) == /\ schema.columns[i].table_name = t
                 /\ schema.columns[i].column_name = c
    IN  schema.columns[CHOOSE i \in 1..Len(schema.columns) :
                          at(i) /\ \A j \in 1..(i - 1) : ~at(j)]

DifferingFields(t, c) ==
    {f \in ComparedFields :
        Canonical(ColumnRecord(schemaA, t, c)[f])
            # Canonical(ColumnRecord(schemaB, t, c)[f])}

\* The changed entries the columns sub-result holds for column c of table t.
ChangedEntries(t, c) ==
    IF Has(diff.columns, t)
    THEN LET ch == Get(diff.columns, t).changed
         IN  {i \in 1..Len(ch) : ch[i].column = c}
    ELSE {}

DifferencesExact(t, c) ==
    LET expected == DifferingFields(t, c)
        a == ColumnRecord(schemaA, t, c)
        b == ColumnRecord(schemaB, t, c)
    IN  /\ (ChangedEntries(t, c) # {}) <=> (expected # {})
        /\ Cardinality(ChangedEntries(t, c)) <= 1
        /\ \A i \in ChangedEntries(t, c) :
              LET ds == Get(diff.columns, t).changed[i].differences
              IN  /\ {ds[n].field : n \in 1..Len(ds)} = expected
                  /\ Len(ds) = Cardinality(expected)
                  /\ \A n \in 1..Len(ds) :
                        /\ ds[n].valueA = a[ds[n].field]
                        /\ ds[n].valueB = b[ds[n].field]
        /\ \A f \in ComparedFields : SameContent(a[f], b[f]) => f \notin expected
        /\ (\A f \in ComparedFields : SameContent(a[f], b[f]))
              => ChangedEntries(t, c) = {}

\* C5: in a returned diff, for every column present in both snapshots, the
\* differences list names exactly the compared fields whose normalized
\* values differ, once each and with the two raw values; the column is in
\* changed exactly if the list is not empty; fields whose values differ
\* only as null, missing, empty or padded are not listed.
C5_DifferencesExact ==
    Returned =>
        \A t \in ColumnTables(schemaA) \cap ColumnTables(schemaB) :
            \A c \in ColumnNames(schemaA, t) \cap ColumnNames(schemaB, t) :
                DifferencesExact(t, c)

\* Scenario 2 under another representation: users.email is nullable in A
\* and NOT NULL in B, and A's record is padded and has missing fields; the
\* one difference reported is is_nullable, YES against NO.
C5_Witness ==
    /\ Returned
    /\ schemaA.columns = <<PaddedColumn(Users, Email)>>
    /\ schemaB.columns = <<NotNullColumn(Users, Email)>>
    /\ Has(diff.columns, Users)
    /\ Get(diff.columns, Users).changed =
          << [column |-> Email,
              differences |-> << [field  |-> "is_nullable",
                                  valueA |-> Str(YES),
                                  valueB |-> Str(NO)] >>] >>

----------------------------------------------------------------------------
(* C6 *)

\* Table t has a column on one side only or a column whose compared fields
\* differ.
HasColumnDelta(t) ==
    \/ ColumnNames(schemaA, t) # ColumnNames(schemaB, t)
    \/ \E c \in ColumnNames(schemaA, t) \cap ColumnNames(schemaB, t) :
          DifferingFields(t, c) # {}

\* C6: in a returned diff a table name is a key of the columns sub-result
\* exactly if the table has an only-in-A, only-in-B or changed column, and
\* no key maps to a record whose three lists are all empty.
C6_ColumnTableOmission ==
    Returned =>
        /\ \A t \in ColumnTables(schemaA) \cup ColumnTables(schemaB) :
              Has(diff.columns, t) <=> HasColumnDelta(t)
        /\ \A i \in 1..Len(diff.columns) :
              /\ diff.columns[i].key \in ColumnTables(schemaA) \cup ColumnTables(schemaB)
              /\ \/ diff.columns[i].value.onlyInA # <<>>
                 \/ diff.columns[i].value.onlyInB # <<>>
                 \/ diff.columns[i].value.changed # <<>>
        /\ NoRepeat(Keys(diff.columns))

\* users has the same column on both sides, under two representations, and
\* is no key; orders has a column in A only and is a key.
C6_Witness ==
    /\ Returned
    /\ schemaA.columns = <<BaseColumn(Users, Email), BaseColumn(Orders, Id)>>
    /\ schemaB.columns = <<PaddedColumn(Users, Email)>>
    /\ Keys(diff.columns) = <<Orders>>

----------------------------------------------------------------------------
(* C7 *)

\* C7: in a returned diff the three lists of the tables sub-result hold the
\* table names of A only, of B only and of both; they are pairwise
\* disjoint, together they are all table names of A and B, and each is in
\* ascending order.
C7_TablesPartition ==
    Returned =>
        LET namesA == TableNames(schemaA)
            namesB == TableNames(schemaB)
            d      == diff.tables
        IN  /\ Range(d.onlyInA) = namesA \ namesB
            /\ Range(d.onlyInB) = namesB \ namesA
            /\ Range(d.common) = namesA \cap namesB
            /\ Disjoint(Range(d.onlyInA), Range(d.onlyInB))
            /\ Disjoint(Range(d.onlyInA), Range(d.common))
            /\ Disjoint(Range(d.onlyInB), Range(d.common))
            /\ Range(d.onlyInA) \cup Range(d.onlyInB) \cup Range(d.common)
                  = namesA \cup namesB
            /\ Ascending(d.onlyInA) /\ Ascending(d.onlyInB) /\ Ascending(d.common)

\* Scenario 1: A has users and orders, B has users and payments.
C7_Witness ==
    /\ Returned
    /\ schemaA.tables = <<[table_name |-> Users], [table_name |-> Orders]>>
    /\ schemaB.tables = <<[table_name |-> Users], [table_name |-> Payments]>>
    /\ diff.tables = [onlyInA |-> <<Orders>>, onlyInB |-> <<Payments>>,
                       common |-> <<Users>>]

----------------------------------------------------------------------------
(* C8 *)

EnumNames(schema) == {schema.enums[i].enum_name : i \in 1..Len(schema.enums)}

\* The rows of a snapshot that record value v for type name.
EnumRowsOf(schema, name, v) ==
    {i \in 1..Len(schema.enums) : schema.enums[i] = EnumRow(name, v)}

EnumValues(schema, name) ==
    {schema.enums[i].enum_value :
        i \in {j \in 1..Len(schema.enums) : schema.enums[j].enum_name = name}}

EnumChangedEntries(name) ==
    {i \in 1..Len(diff.enums.changed) : diff.enums.changed[i].name = name}

\* Some value is recorded for the type a different number of times in A
\* and in B.
MembersDiffer(name) ==
    \E v \in EnumValues(schemaA, name) \cup EnumValues(schemaB, name) :
        Cardinality(EnumRowsOf(schemaA, name, v))
            # Cardinality(EnumRowsOf(schemaB, name, v))

\* C8 as claimed: in a returned diff an enum type of both snapshots has a
\* changed entry exactly if its set of member values in A differs from its
\* set of member values in B, whatever the order or repetition of its rows.
C8_ChangedIffSetsDiffer ==
    Returned =>
        \A name \in EnumNames(schemaA) \cap EnumNames(schemaB) :
            (EnumChangedEntries(name) # {})
                <=> (EnumValues(schemaA, name) # EnumValues(schemaB, name))

\* C8 as amended: in a returned diff an enum type of both snapshots has a
\* changed entry, and then one only, exactly if some member value is
\* recorded a different number of times in A and in B; the order of the
\* member rows never matters.
C8_ChangedIffMembersDiffer ==
    Returned =>
        \A name \in EnumNames(schemaA) \cap EnumNames(schemaB) :
            /\ (EnumChangedEntries(name) # {}) <=> MembersDiffer(name)
            /\ Cardinality(EnumChangedEntries(name)) <= 1

\* Scenario 3: status is active, inactive in A and inactive, active in B.
C8_Witness ==
    /\ Returned
    /\ schemaA.enums = <<EnumRow(Status, Active), EnumRow(Status, Inactive)>>
    /\ schemaB.enums = <<EnumRow(Status, Inactive), EnumRow(Status, Active)>>
    /\ diff.enums.changed = <<>>

----------------------------------------------------------------------------
(* C9 *)

NonDescending(seq) == \A i \in 1..(Len(seq) - 1) : ~StrLess(seq[i + 1], seq[i])

\* seq lists every member value recorded for the type, as often as recorded.
ListsAllMembers(seq, schema, name) ==
    /\ Range(seq) = EnumValues(schema, name)
    /\ \A v \in Range(seq) :
          Cardinality({i \in 1..Len(seq) : seq[i] = v})
              = Cardinality(EnumRowsOf(schema, name, v))

\* C9: every entry of enums.changed of a returned diff has exactly the
\* fields name, valuesA and valuesB; valuesA lists all member values
\* recorded for the type in A in ascending order, valuesB those recorded in
\* B, and the two sequences are unequal.
C9_EnumChangedShape ==
    Returned =>
        \A i \in 1..Len(diff.enums.changed) :
            LET e == diff.enums.changed[i]
            IN  /\ DOMAIN e = {"name", "valuesA", "valuesB"}
                /\ NonDescending(e.valuesA) /\ NonDescending(e.valuesB)
                /\ ListsAllMembers(e.valuesA, schemaA, e.name)
                /\ ListsAllMembers(e.valuesB, schemaB, e.name)
                /\ e.valuesA # e.valuesB

\* status is inactive, active in A and inactive, archived in B, both out of
\* order.
C9_Witness ==
    /\ Returned
    /\ schemaA.enums = <<EnumRow(Status, Inactive), EnumRow(Status, Active)>>
    /\ schemaB.enums = <<EnumRow(Status, Inactive), EnumRow(Status, Archived)>>
    /\ diff.enums.changed =
          << [name |-> Status, valuesA |-> <<Active, Inactive>>,
              valuesB |-> <<Archived, Inactive>>] >>

----------------------------------------------------------------------------
(* C10 *)

ValueFields(cat) ==
    CASE cat = "indexes"   -> {"defA", "defB"}
      [] cat = "functions" -> {"signatureA", "signatureB"}
      [] OTHER             -> {"valueA", "valueB"}

UsersPk == Users \o <<":", ":">> \o Pk

----------------------------------------------------------------------------
(* C12 *)

\* The values a snapshot's enum rows give for a type, in record order.
EnumValuesInRecordOrder(schema, name) ==
    LET ofName(r) == r.enum_name = name
        rows == SelectSeq(schema.enums, ofName)
    IN  [i \in 1..Len(rows) |-> rows[i].enum_value]

----------------------------------------------------------------------------
(* C13 *)

\* The positions of the lists one field holds over all table entries of
\* the columns sub-result: one element for each listed item.
ColumnItems(field) ==
    UNION { {<<t, i>> : i \in 1..Len(diff.columns[t].value[field])} :
            t \in 1..Len(diff.columns) }

\* C13: once computeStats has returned, the three column counts are the
\* numbers of items the onlyInA, onlyInB and changed lists hold over all
\* table entries of diff.columns (0 when there is no entry), the three
\* table counts are the lengths of tables.onlyInA, onlyInB and common, and
\* the three counts of each other category are the lengths of its onlyInA,
\* onlyInB and changed.
C13_StatsAreLengths ==
    pc = "reported" =>
        /\ stats.columnsOnlyA = Cardinality(ColumnItems("onlyInA"))
        /\ stats.columnsOnlyB = Cardinality(ColumnItems("onlyInB"))
        /\ stats.columnsChanged = Cardinality(ColumnItems("changed"))
        /\ diff.columns = <<>> =>
              /\ stats.columnsOnlyA = 0
              /\ stats.columnsOnlyB = 0
              /\ stats.columnsChanged = 0
        /\ stats.tablesOnlyA = Len(diff.tables.onlyInA)
        /\ stats.tablesOnlyB = Len(diff.tables.onlyInB)
        /\ stats.tablesCommon = Len(diff.tables.common)
        /\ stats.indexesOnlyA = Len(diff.indexes.onlyInA)
        /\ stats.indexesOnlyB = Len(diff.indexes.onlyInB)
        /\ stats.indexesChanged = Len(diff.indexes.changed)
        /\ stats.fksOnlyA = Len(diff.foreignKeys.onlyInA)
        /\ stats.fksOnlyB = Len(diff.foreignKeys.onlyInB)
        /\ stats.fksChanged = Len(diff.foreignKeys.changed)
        /\ stats.enumsOnlyA = Len(diff.enums.onlyInA)
        /\ stats.enumsOnlyB = Len(diff.enums.onlyInB)
        /\ stats.enumsChanged = Len(diff.enums.changed)
        /\ stats.policiesOnlyA = Len(diff.policies.onlyInA)
        /\ stats.policiesOnlyB = Len(diff.policies.onlyInB)
        /\ stats.policiesChanged = Len(diff.policies.changed)
        /\ stats.functionsOnlyA = Len(diff.functions.onlyInA)
        /\ stats.functionsOnlyB = Len(diff.functions.onlyInB)
        /\ stats.functionsChanged = Len(diff.functions.changed)
        /\ stats.triggersOnlyA = Len(diff.triggers.onlyInA)
        /\ stats.triggersOnlyB = Len(diff.triggers.onlyInB)
        /\ stats.triggersChanged = Len(diff.triggers.changed)

\* computeStats has returned for a diff with two table entries that both
\* count: a column only in A in one table, and in the other a column only
\* in B and a changed column.
C13_Witness ==
    /\ pc = "reported"
    /\ Len(diff.columns) = 2
    /\ stats.columnsOnlyA = 1
    /\ stats.columnsOnlyB = 1
    /\ stats.columnsChanged = 1

----------------------------------------------------------------------------
(* C14 *)

\* C14: parsing the JSON text of a returned diff gives back the diff, every
\* property of every entry present with its value; for a column difference
\* that is field, valueA and valueB, also when valueA or valueB is
\* undefined.
C14_JsonRoundTrip ==
    Returned => parsedJson(diff) = WithOwnProperties(diff)

----------------------------------------------------------------------------
(* C15 *)

BothFulfilled == \A s \in Sides : extraction[s] = "fulfilled"

SomeFailed == \E s \in Sides : extraction[s] \in {"failing", "rejected"}

\* C15: in a run of any of the three entry points the two extractions
\* start in one step; the entry point goes on to diffSchemas and beyond,
\* and holds an outcome of diffSchemas or a success response, only with
\* both extractions fulfilled; a run in which an extraction has failed
\* ends, if it has ended, with the error response (500, or exit code 1);
\* and no extraction starts again: one that has left its start never
\* connects anew and one that has settled stays as it is.
C15_FanOutFanIn ==
    /\ []( /\ extraction["A"] = "idle" <=> extraction["B"] = "idle"
           /\ (pc \in {"extracted", "diffed", "reported"} \/ outcome # "none")
                 => BothFulfilled
           /\ response = SuccessResponse
                 => BothFulfilled /\ outcome = "returned"
           /\ SomeFailed => outcome = "none" /\ diff = NoDiff
           /\ SomeFailed /\ pc = "done" => response = ErrorResponse )
    /\ [][ \A s \in Sides :
             /\ extraction[s] \notin {"idle", "connecting"}
                   => extraction'[s] \notin {"idle", "connecting"}
             /\ extraction[s] \in {"fulfilled", "rejected"}
                   => extraction'[s] = extraction[s] ]_vars

\* A run of the HTTP server has ended with 500 and without a diff: the
\* extraction of A was rejected, that of B fulfilled with a snapshot.
C15_Witness ==
    /\ entryPoint = "server"
    /\ pc = "done"
    /\ extraction["A"] = "rejected"
    /\ extraction["B"] = "fulfilled"
    /\ schemaB # EmptySchema
    /\ response = "500"
    /\ outcome = "none"
    /\ diff = NoDiff

----------------------------------------------------------------------------
(* C16 *)

\* The values the compared fields hold in the column records of a snapshot.
FieldValues(schema) ==
    {schema.columns[i][f] : i \in 1..Len(schema.columns), f \in ComparedFields}

\* C16: for every value x a compared field holds in a column record of
\* either snapshot of a run that has compared them, normalizing the string
\* normalize(x) gives normalize(x) again, and if x is null, undefined, the
\* empty string or a string of whitespace only, normalize(x) is the empty
\* string.
C16_NormalizeIdempotent ==
    pc # "extracted" =>
        \A x \in FieldValues(schemaA) \cup FieldValues(schemaB) :
            /\ normalize(Str(normalize(x))) = normalize(x)
            /\ Blank(x) => normalize(x) = <<>>

\* The diff has compared a column whose record in A holds null, undefined,
\* the empty string, a string of two spaces and a padded string with its
\* record in B.
C16_Witness ==
    /\ pc = "diffed"
    /\ {Null, Undefined, Str(<<>>), Str(<<" ", " ">>),
        Str(<<" ">> \o Text \o <<"\t">>)} \subseteq FieldValues(schemaA)
    /\ \E i \in 1..Len(schemaA.columns) : \E j \in 1..Len(schemaB.columns) :
          /\ schemaA.columns[i].table_name = schemaB.columns[j].table_name
          /\ schemaA.columns[i].column_name = schemaB.columns[j].column_name

----------------------------------------------------------------------------
(* C17 *)

\* The identity tuple of a record of a simple category: the names its key
\* is joined from.
IdentityOf(cat, r) ==
    CASE cat = "indexes"     -> <<r.tablename, r.indexname>>
      [] cat = "foreignKeys" -> <<r.table_name, r.constraint_name>>
      [] cat = "policies"    -> <<r.tablename, r.policyname>>
      [] cat = "functions"   -> <<r.function_name, r.arguments>>
      [] cat = "triggers"    ->
            <<r.event_object_table, r.trigger_name, r.event_manipulation>>

\* C17: in each simple category, two records of the snapshots of a run,
\* of one snapshot or one of each, whose identity tuples differ have
\* different keys, whatever characters the names hold.
C17_KeysIdentify ==
    Returned =>
        \A cat \in SimpleCategories :
            \A r1, r2 \in Range(schemaA[cat]) \cup Range(schemaB[cat]) :
                IdentityOf(cat, r1) # IdentityOf(cat, r2)
                    => KeyOf(cat, r1) # KeyOf(cat, r2)

----------------------------------------------------------------------------
(* C18 *)

\* The positions of the records with key k.
Occurrences(cat, rows, k) == {i \in 1..Len(rows) : KeyOf(cat, rows[i]) = k}

Repeated(cat, rows, k) == Cardinality(Occurrences(cat, rows, k)) > 1

FirstRecord(cat, rows, k) ==
    rows[CHOOSE i \in Occurrences(cat, rows, k) :
            \A j \in Occurrences(cat, rows, k) : i <= j]

LastRecord(cat, rows, k) ==
    rows[CHOOSE i \in Occurrences(cat, rows, k) :
            \A j \in Occurrences(cat, rows, k) : j <= i]

\* The places where a section of the diff names key k.
Mentions(cat, k) ==
    LET d == diff[cat]
    IN  {<<"onlyInA", i>> : i \in {j \in 1..Len(d.onlyInA) : d.onlyInA[j] = k}}
        \cup {<<"onlyInB", i>> : i \in {j \in 1..Len(d.onlyInB) : d.onlyInB[j] = k}}
        \cup {<<"changed", i>> : i \in {j \in 1..Len(d.changed) : d.changed[j].key = k}}

\* C18: when a key of a simple category has two or more records in one
\* snapshot, the call returns, the diff names the key at most once, the key
\* is in changed exactly if both snapshots have it and the comparison
\* values of the last record of each side differ, and its changed entry
\* holds those two values.
C18_LastRecordWins ==
    pc = "diffed" =>
        \A cat \in SimpleCategories :
            \A k \in KeysIn(cat, schemaA[cat]) \cup KeysIn(cat, schemaB[cat]) :
                Repeated(cat, schemaA[cat], k) \/ Repeated(cat, schemaB[cat], k) =>
                    /\ outcome = "returned"
                    /\ Cardinality(Mentions(cat, k)) <= 1
                    /\ (\E i \in 1..Len(diff[cat].changed) : diff[cat].changed[i].key = k)
                          <=> /\ k \in KeysIn(cat, schemaA[cat])
                              /\ k \in KeysIn(cat, schemaB[cat])
                              /\ ValueOf(cat, LastRecord(cat, schemaA[cat], k))
                                    # ValueOf(cat, LastRecord(cat, schemaB[cat], k))
                    /\ \A i \in 1..Len(diff[cat].changed) :
                          diff[cat].changed[i].key = k =>
                              /\ SideA(cat, diff[cat].changed[i])
                                    = ValueOf(cat, LastRecord(cat, schemaA[cat], k))
                              /\ SideB(cat, diff[cat].changed[i])
                                    = ValueOf(cat, LastRecord(cat, schemaB[cat], k))

\* A foreign key with two rows in A, whose first row has the value of the
\* one row in B, is reported as changed, with the value of the second row.
C18_Witness ==
    /\ Returned
    /\ \E i \in 1..Len(diff.foreignKeys.changed) :
          LET e == diff.foreignKeys.changed[i]
          IN  /\ Repeated("foreignKeys", schemaA.foreignKeys, e.key)
              /\ ~Repeated("foreignKeys", schemaB.foreignKeys, e.key)
              /\ foreignKeysValFn(FirstRecord("foreignKeys", schemaA.foreignKeys, e.key))
                    = e.valueB
              /\ foreignKeysValFn(LastRecord("foreignKeys", schemaA.foreignKeys, e.key))
                    = e.valueA

----------------------------------------------------------------------------
(* C19 *)

\* The position of the first record with key k.
FirstOccurrence(cat, rows, k) ==
    CHOOSE i \in Occurrences(cat, rows, k) :
        \A j \in Occurrences(cat, rows, k) : i <= j

----------------------------------------------------------------------------
(* C20 *)

\* The entry of the columns sub-result for a table with column records in
\* snapshot `with` only: all its column names on that side, nothing else.
OneSidedEntry(t, with, side, other) ==
    /\ Has(diff.columns, t)
    /\ LET e == Get(diff.columns, t)
       IN  /\ Range(e[side]) = ColumnNames(with, t)
           /\ NoRepeat(e[side])
           /\ e[other] = <<>>
           /\ e.changed = <<>>

\* C20: in a returned diff, a table name with column records in snapshot A
\* and none in B has an entry in columns whose onlyInA holds each column
\* name of the table in A once and whose onlyInB and changed are empty,
\* and likewise with A and B exchanged, whatever the table records of the
\* two snapshots list; and the columns sub-result is the one the same
\* column records give with no table record at all.
C20_ColumnsIgnoreTables ==
    Returned =>
        /\ \A t \in ColumnTables(schemaA) \ ColumnTables(schemaB) :
              OneSidedEntry(t, schemaA, "onlyInA", "onlyInB")
        /\ \A t \in ColumnTables(schemaB) \ ColumnTables(schemaA) :
              OneSidedEntry(t, schemaB, "onlyInB", "onlyInA")
        /\ diff.columns = diffColumns([schemaA EXCEPT !.tables = <<>>],
                                      [schemaB EXCEPT !.tables = <<>>]).value

\* A table with two columns recorded in A and none in B, listed by no table
\* record of A and by one of B: tables reports it only in B, columns has
\* its entry with both columns only in A.
C20_Witness ==
    /\ Returned
    /\ \E t \in ColumnTables(schemaA) \ ColumnTables(schemaB) :
          /\ t \notin TableNames(schemaA)
          /\ t \in TableNames(schemaB)
          /\ Contains(diff.tables.onlyInB, t)
          /\ Has(diff.columns, t)
          /\ Len(Get(diff.columns, t).onlyInA) = 2

----------------------------------------------------------------------------
(* C21 *)

\* The call with the two snapshots, and the two labels, exchanged.
Swapped == diffSchemas(schemaB, schemaA, DatabaseB, DatabaseA)

\* Section sw lists on each side what section d lists on the other.
SidesExchanged(d, sw) ==
    /\ d.onlyInA = sw.onlyInB
    /\ d.onlyInB = sw.onlyInA

\* The changed entries of sw are those of d with the values of the two
\* sides exchanged: keyed by idField, values in fieldA and fieldB.
EntriesExchanged(d, sw, idField, fieldA, fieldB) ==
    /\ {d.changed[i][idField] : i \in 1..Len(d.changed)}
          = {sw.changed[i][idField] : i \in 1..Len(sw.changed)}
    /\ Len(d.changed) = Len(sw.changed)
    /\ \A i \in 1..Len(d.changed) : \A j \in 1..Len(sw.changed) :
          d.changed[i][idField] = sw.changed[j][idField] =>
              /\ d.changed[i][fieldA] = sw.changed[j][fieldB]
              /\ d.changed[i][fieldB] = sw.changed[j][fieldA]

\* The same for the differences of a changed column, keyed by field.
DifferencesExchanged(e, f) ==
    /\ Len(e.differences) = Len(f.differences)
    /\ \A i \in 1..Len(e.differences) :
          /\ e.differences[i].field = f.differences[i].field
          /\ e.differences[i].valueA = f.differences[i].valueB
          /\ e.differences[i].valueB = f.differences[i].valueA

ColumnsExchanged(d, sw) ==
    /\ Range(Keys(d)) = Range(Keys(sw))
    /\ \A t \in Range(Keys(d)) :
          LET e == Get(d, t)
              f == Get(sw, t)
          IN  /\ SidesExchanged(e, f)
              /\ {e.changed[i].column : i \in 1..Len(e.changed)}
                    = {f.changed[i].column : i \in 1..Len(f.changed)}
              /\ Len(e.changed) = Len(f.changed)
              /\ \A i \in 1..Len(e.changed) : \A j \in 1..Len(f.changed) :
                    e.changed[i].column = f.changed[j].column =>
                        DifferencesExchanged(e.changed[i], f.changed[j])

\* C21: when diffSchemas(A, B) has returned, diffSchemas(B, A) returns as
\* well and, in every category, its onlyInA is the onlyInB of the first
\* and its onlyInB the onlyInA; tables.common is the same in both; and
\* changed names the same keys in both (columns per table, enum names, keys
\* of the simple categories), each entry with the values of the two sides
\* exchanged.
C21_SwapExchangesSides ==
    Returned =>
        /\ ~Swapped.threw
        /\ LET sw == Swapped.value
           IN  /\ SidesExchanged(diff.tables, sw.tables)
               /\ diff.tables.common = sw.tables.common
               /\ ColumnsExchanged(diff.columns, sw.columns)
               /\ \A cat \in SimpleCategories \cup {"enums"} :
                     SidesExchanged(diff[cat], sw[cat])
               /\ EntriesExchanged(diff.indexes, sw.indexes, "key", "defA", "defB")
               /\ EntriesExchanged(diff.functions, sw.functions,
                                   "key", "signatureA", "signatureB")
               /\ \A cat \in {"foreignKeys", "policies", "triggers"} :
                     EntriesExchanged(diff[cat], sw[cat], "key", "valueA", "valueB")
               /\ EntriesExchanged(diff.enums, sw.enums, "name", "valuesA", "valuesB")

\* A returned diff with a column only in A and a changed column of one
\* table, and with a table that has columns in B only.
C21_Witness ==
    /\ Returned
    /\ \E t \in 1..Len(diff.columns) :
          /\ Len(diff.columns[t].value.onlyInA) > 0
          /\ Len(diff.columns[t].value.changed) > 0
    /\ \E t \in 1..Len(diff.columns) :
          /\ Len(diff.columns[t].value.onlyInB) > 0
          /\ Len(diff.columns[t].value.onlyInA) = 0

----------------------------------------------------------------------------
(* C22 *)

\* The call of extractSchema for side s has returned or thrown.
Settled(s) == extraction[s] \in {"fulfilled", "rejected"}

\* Within one call: client.end() is not called before the try block is
\* left, it has been called once when the call has returned or thrown, and
\* never twice.
ClosedOncePerCall ==
    \A s \in Sides :
        /\ clientEnds[s] <= 1
        /\ Settled(s) <=> clientEnds[s] = 1

\* A step that makes a call return its snapshot starts where connect and
\* the eight queries have succeeded.
SnapshotOnlyAfterQueries ==
    [][ \A s \in Sides :
          /\ extraction'[s] = "fulfilled" /\ extraction[s] # "fulfilled"
                => extraction[s] = "returning"
          /\ extraction'[s] = "returning" /\ extraction[s] # "returning"
                => extraction[s] = "querying"
          /\ extraction'[s] = "querying" /\ extraction[s] # "querying"
                => extraction[s] = "connecting" ]_vars

\* C22: client.end() is called once in every call of extractSchema that
\* has returned or thrown and never more than once, and when the process
\* of a comparison has ended, the client of each of its two extractions
\* has been closed by one call of client.end(), also when the other
\* extraction has failed.
C22_ClientClosedOnce ==
    /\ ClosedOncePerCall
    /\ Exited => \A s \in Sides : extraction[s] = "idle" \/ clientEnds[s] = 1

----------------------------------------------------------------------------
(* C23 *)

\* The positions of the column records of table t and column c.
ColumnOccurrences(schema, t, c) ==
    {i \in 1..Len(schema.columns) :
        /\ schema.columns[i].table_name = t
        /\ schema.columns[i].column_name = c}

ColumnRepeated(schema, t, c) == Cardinality(ColumnOccurrences(schema, t, c)) > 1

FirstColumnRecord(schema, t, c) ==
    schema.columns[CHOOSE i \in ColumnOccurrences(schema, t, c) :
                      \A j \in ColumnOccurrences(schema, t, c) : i <= j]

LastColumnRecord(schema, t, c) ==
    schema.columns[CHOOSE i \in ColumnOccurrences(schema, t, c) :
                      \A j \in ColumnOccurrences(schema, t, c) : j <= i]

\* The places where the entry of table t names column c.
ColumnMentions(t, c) ==
    IF ~Has(diff.columns, t) THEN {}
    ELSE LET e == Get(diff.columns, t)
         IN  {<<"onlyInA", i>> : i \in {j \in 1..Len(e.onlyInA) : e.onlyInA[j] = c}}
             \cup {<<"onlyInB", i>> : i \in {j \in 1..Len(e.onlyInB) : e.onlyInB[j] = c}}
             \cup {<<"changed", i>> : i \in {j \in 1..Len(e.changed) : e.changed[j].column = c}}

\* Some column record has a table name that Object.prototype defines.
InheritedTableName ==
    \E schema \in {schemaA, schemaB} : ColumnTables(schema) \cap PrototypeKeys # {}

\* The first records of column c of table t differ in a compared field.
FirstRecordsDiffer(t, c) ==
    \E f \in ComparedFields :
        Canonical(FirstColumnRecord(schemaA, t, c)[f])
            # Canonical(FirstColumnRecord(schemaB, t, c)[f])

\* C23: when a snapshot holds two or more column records of one table
\* name and column name, the call throws only for a table name inherited
\* from Object.prototype, and when it returns, the entry of the table names
\* the column at most once, the column is in changed exactly if both
\* snapshots have it and the first record of each side differ, and each
\* difference reported holds the values of those first records.
C23_FirstColumnRecordWins ==
    pc = "diffed" =>
        \A t \in ColumnTables(schemaA) \cup ColumnTables(schemaB) :
            \A c \in ColumnNames(schemaA, t) \cup ColumnNames(schemaB, t) :
                ColumnRepeated(schemaA, t, c) \/ ColumnRepeated(schemaB, t, c) =>
                    /\ outcome = "returned" \/ InheritedTableName
                    /\ outcome = "returned" =>
                          /\ Cardinality(ColumnMentions(t, c)) <= 1
                          /\ (\E m \in ColumnMentions(t, c) : m[1] = "changed")
                                <=> /\ c \in ColumnNames(schemaA, t)
                                    /\ c \in ColumnNames(schemaB, t)
                                    /\ FirstRecordsDiffer(t, c)
                          /\ \A m \in ColumnMentions(t, c) :
                                m[1] = "changed" =>
                                    LET ds == Get(diff.columns, t).changed[m[2]].differences
                                    IN  \A i \in 1..Len(ds) :
                                          /\ ds[i].valueA
                                                = FirstColumnRecord(schemaA, t, c)[ds[i].field]
                                          /\ ds[i].valueB
                                                = FirstColumnRecord(schemaB, t, c)[ds[i].field]

\* A column with two records in A: the first is the one record of B, the
\* second differs from it, and the diff reports nothing for the column.
C23_Witness ==
    /\ Returned
    /\ diff.columns = <<>>
    /\ \E t \in ColumnTables(schemaA) : \E c \in ColumnNames(schemaA, t) :
          /\ ColumnRepeated(schemaA, t, c)
          /\ c \in ColumnNames(schemaB, t)
          /\ ~ColumnRepeated(schemaB, t, c)
          /\ FirstColumnRecord(schemaA, t, c) = FirstColumnRecord(schemaB, t, c)
          /\ \E f \in ComparedFields :
                Canonical(LastColumnRecord(schemaA, t, c)[f])
                    # Canonical(FirstColumnRecord(schemaB, t, c)[f])

====
